---- MODULE Spec2Model ----
(***************************************************************************)
(* cloudknot/aws/iam.py : the IamRole class.                               *)
(*                                                                         *)
(* An IamRole object is built by a constructor that first probes the IAM   *)
(* service for a role of its name and then either adopts the role found or *)
(* creates a new one, and is torn down by remove_aws_resource.  Every call *)
(* to the IAM client is one step of the model, so that a failure of the    *)
(* service and a change of the account between two calls can be placed     *)
(* anywhere.  The IAM service itself is the environment: its state is the  *)
(* variable iam and its operations are the IAM_* operators.                *)
(***************************************************************************)
EXTENDS Integers, Sequences, FiniteSets, TLC

(***************************************************************************)
(* Bounds of the model.                                                    *)
(***************************************************************************)
\* longest tuple of policies a caller passes
MaxLen == 2

\* the references to IamRole objects the callers hold: a single-threaded
\* caller needs one, which it rebinds to construct again
Objs == {"role"}

(***************************************************************************)
(* Python values.  A value carries its type, so that isinstance and        *)
(* truthiness are computed, not assumed.                                   *)
(***************************************************************************)
PyNone == [t |-> "NoneType"]
PyStr(s) == [t |-> "str", s |-> s]
PyInt(i) == [t |-> "int", i |-> i]
PyBool(b) == [t |-> "bool", b |-> b]
PyTuple(q) == [t |-> "tuple", q |-> q]
PyDict(d) == [t |-> "dict", d |-> d]

\* isinstance(x, str), isinstance(x, bool)
IsStr(x) == x.t = "str"
\* (a variant that takes any value for a boolean)
IsBoolAny(x) == TRUE
\* isinstance(x, bool)
IsBool(x) == x.t = "bool"

\* bool(x), as `if description:` and `if self.add_instance_profile:` take it
Truthy(x) ==
    CASE x.t = "NoneType" -> FALSE
      [] x.t = "str" -> x.s # ""
      [] x.t = "int" -> x.i # 0
      [] x.t = "bool" -> x.b
      [] x.t = "tuple" -> x.q # <<>>
      [] OTHER -> TRUE

Range(q) == {q[i] : i \in DOMAIN q}

\* the orders in which a set can be iterated: tuple(a_set), a list response
Orders(S) ==
    {q \in [1 .. Cardinality(S) -> S] : Range(q) = S}

(***************************************************************************)
(* Names of the account and the inputs the callers choose from.            *)
(***************************************************************************)
\* the managed policies that can exist in the account
AwsPolicyNames == {"AmazonS3ReadOnlyAccess", "AmazonS3FullAccess", "AWSBatchServiceRole"}

_allowed_services == <<"batch", "ec2", "ecs-tasks", "lambda", "spotfleet">>

NameInputs == {"my-role"}
DescriptionInputs == {PyNone, PyStr(""), PyStr("my description")}
ServiceInputs == Range(_allowed_services) \cup {"invalid-service"}
PolicyElemInputs ==
    {PyStr("AmazonS3ReadOnlyAccess"), PyStr("AmazonS3FullAccess"), PyStr("NOPE"), PyInt(7)}
SeqsUpTo(S, n) == UNION {[1 .. k -> S] : k \in 0 .. n}
PoliciesInputs ==
    {x \in PolicyElemInputs : IsStr(x)} \cup {PyTuple(q) : q \in SeqsUpTo(PolicyElemInputs, MaxLen)}
FlagInputs == {PyBool(TRUE), PyBool(FALSE), PyInt(1)}

\* the defaults of __init__ (line 12-13), but for the service
Arguments(description, service, policies, add_instance_profile) ==
    [description |-> description, service |-> service, policies |-> policies,
     add_instance_profile |-> add_instance_profile]

\* the arguments the callers pass: each argument takes all its values with
\* the other ones fixed, and the policies meet every flag
ConstructInputs ==
    {Arguments(d, "batch", PyTuple(<<>>), PyBool(FALSE)) : d \in DescriptionInputs}
    \cup {Arguments(PyNone, s, p, PyBool(FALSE)) :
            s \in ServiceInputs, p \in {PyTuple(<<>>), PyStr("AmazonS3ReadOnlyAccess")}}
    \cup {Arguments(PyNone, "batch", p, PyBool(FALSE)) : p \in PoliciesInputs}
    \cup {Arguments(PyNone, "batch", p, f) :
            p \in {PyTuple(<<>>), PyStr("AmazonS3ReadOnlyAccess"),
                   PyTuple(<<PyStr("AmazonS3ReadOnlyAccess"), PyStr("AmazonS3FullAccess")>>)},
            f \in FlagInputs}
    \cup {Arguments(PyNone, "batch",
                     PyTuple(<<PyStr("AmazonS3ReadOnlyAccess"), PyStr("AmazonS3ReadOnlyAccess"),
                               PyStr("AmazonS3FullAccess")>>),
                     PyBool(TRUE))}
    \cup {Arguments(PyStr("my description"), "invalid-service", PyTuple(<<PyInt(7)>>), PyInt(1))}

(***************************************************************************)
(* The IAM service (the module-level client IAM of base_classes).  Its     *)
(* state: the roles, the managed policies attached to each role, the       *)
(* instance profiles with the roles bound to each, and the managed         *)
(* policies of the account.  Each operation has an exception it raises     *)
(* ("none" when it succeeds), a response and an effect.                    *)
(***************************************************************************)
RoleArn(name) == "arn:aws:iam::123456789012:role/" \o name
PolicyArn(name) == "arn:aws:iam::aws:policy/" \o name
ProfileArn(name) == "arn:aws:iam::123456789012:instance-profile/" \o name
PolicyNameOfArn(arn) == CHOOSE n \in AwsPolicyNames : PolicyArn(n) = arn

\* json.dumps on the way to the service, and the service's parsing of it
JsonDumps(doc) == [json |-> doc]
JsonLoads(text) == text.json

\* IAM.get_role(RoleName)
IAM_get_role_exc(s, name) ==
    IF name \in DOMAIN s.roles THEN "none" ELSE "NoSuchEntity"
IAM_get_role(s, name) == [Role |-> s.roles[name]]

\* IAM.list_attached_role_policies(RoleName): a list, in some order
IAM_list_attached_role_policies_exc(s, name) ==
    IF name \in DOMAIN s.roles THEN "none" ELSE "NoSuchEntity"
IAM_list_attached_role_policies(s, name) ==
    {[AttachedPolicies |-> q] :
        q \in Orders({[PolicyName |-> PolicyNameOfArn(a), PolicyArn |-> a] :
                         a \in s.attached[name]})}

\* IAM.list_policies()
IAM_list_policies(s) ==
    [Policies |-> {[PolicyName |-> n, Arn |-> PolicyArn(n)] : n \in s.policies}]

\* IAM.create_role(RoleName, AssumeRolePolicyDocument, Description)
IAM_create_role_exc(s, name) ==
    IF name \in DOMAIN s.roles THEN "EntityAlreadyExists" ELSE "none"
IAM_create_role(s, name, document, description) ==
    [s EXCEPT !.roles = (name :> [Arn |-> RoleArn(name),
                                 Description |-> description,
                                 AssumeRolePolicyDocument |-> JsonLoads(document)]) @@ @,
              !.attached = (name :> {}) @@ @]

\* IAM.attach_role_policy(PolicyArn, RoleName): attaching twice is accepted
IAM_attach_role_policy_exc(s, name, arn) ==
    IF name \in DOMAIN s.roles /\ \E n \in s.policies : PolicyArn(n) = arn
    THEN "none" ELSE "NoSuchEntity"
IAM_attach_role_policy(s, name, arn) ==
    [s EXCEPT !.attached[name] = @ \cup {arn}]

\* IAM.detach_role_policy(RoleName, PolicyArn)
IAM_detach_role_policy_exc(s, name, arn) ==
    IF name \in DOMAIN s.roles /\ arn \in s.attached[name]
    THEN "none" ELSE "NoSuchEntity"
IAM_detach_role_policy(s, name, arn) ==
    [s EXCEPT !.attached[name] = @ \ {arn}]

\* IAM.create_instance_profile(InstanceProfileName)
IAM_create_instance_profile_exc(s, profile) ==
    IF profile \in DOMAIN s.profiles THEN "EntityAlreadyExists" ELSE "none"
IAM_create_instance_profile(s, profile) ==
    [s EXCEPT !.profiles = (profile :> {}) @@ @]

\* IAM.add_role_to_instance_profile(InstanceProfileName, RoleName)
IAM_add_role_to_instance_profile_exc(s, profile, name) ==
    IF profile \notin DOMAIN s.profiles \/ name \notin DOMAIN s.roles THEN "NoSuchEntity"
    ELSE IF s.profiles[profile] # {} THEN "LimitExceeded"
    ELSE "none"
IAM_add_role_to_instance_profile(s, profile, name) ==
    [s EXCEPT !.profiles[profile] = @ \cup {name}]

\* IAM.list_instance_profiles_for_role(RoleName)
IAM_list_instance_profiles_for_role_exc(s, name) ==
    IF name \in DOMAIN s.roles THEN "none" ELSE "NoSuchEntity"
IAM_list_instance_profiles_for_role(s, name) ==
    {[InstanceProfiles |-> q] :
        q \in Orders({[InstanceProfileName |-> p, Arn |-> ProfileArn(p)] :
                         p \in {x \in DOMAIN s.profiles : name \in s.profiles[x]}})}

\* IAM.remove_role_from_instance_profile(InstanceProfileName, RoleName)
IAM_remove_role_from_instance_profile_exc(s, profile, name) ==
    IF profile \in DOMAIN s.profiles /\ name \in s.profiles[profile]
    THEN "none" ELSE "NoSuchEntity"
IAM_remove_role_from_instance_profile(s, profile, name) ==
    [s EXCEPT !.profiles[profile] = @ \ {name}]

\* IAM.delete_instance_profile(InstanceProfileName)
IAM_delete_instance_profile_exc(s, profile) ==
    IF profile \notin DOMAIN s.profiles THEN "NoSuchEntity"
    ELSE IF s.profiles[profile] # {} THEN "DeleteConflict"
    ELSE "none"
IAM_delete_instance_profile(s, profile) ==
    [s EXCEPT !.profiles = [p \in DOMAIN @ \ {profile} |-> @[p]]]

\* IAM.delete_role(RoleName)
IAM_delete_role_exc(s, name) ==
    IF name \notin DOMAIN s.roles THEN "NoSuchEntity"
    ELSE IF s.attached[name] # {} \/ \E p \in DOMAIN s.profiles : name \in s.profiles[p]
         THEN "DeleteConflict"
    ELSE "none"
IAM_delete_role(s, name) ==
    [s EXCEPT !.roles = [n \in DOMAIN @ \ {name} |-> @[n]],
              !.attached = [n \in DOMAIN @ \ {name} |-> @[n]]]

(***************************************************************************)
(* State.                                                                  *)
(*   iam     the state of the IAM service                                  *)
(*   obj     the attributes of each IamRole object, as assigned so far     *)
(*   pc      where each object's running method stands                     *)
(*   frame   the arguments and local variables of the running method       *)
(*   calls   the IAM calls issued by the object's last method invocation   *)
(*   result  the last method invoked on the object, its arguments and the  *)
(*           exception it raised ("running" until it ends, "none" when it  *)
(*           returned); for __init__, the roles, attachments and profiles  *)
(*           of the account when it was invoked; for remove_aws_resource,  *)
(*           the teardown before it                                        *)
(*   teardown  what the invocations of remove_aws_resource have done to    *)
(*           the object's role since the object was constructed: whether   *)
(*           one of them aborted, whether one returned, and how many of    *)
(*           their calls changed the service; and what the construction    *)
(*           that failed just before the object's own, if one did, had     *)
(*           built by then (pending until the next construction starts)    *)
(***************************************************************************)
VARIABLES iam, obj, pc, frame, calls, result, teardown

vars == <<iam, obj, pc, frame, calls, result, teardown>>

NoObj == [none |-> TRUE]
NoFrame == [none |-> TRUE]
NoResult == [op |-> "none", exc |-> "none"]
NoPartial == [failed |-> FALSE, attached |-> {}, profile |-> FALSE]
NoTeardown ==
    [aborted |-> FALSE, returned |-> FALSE, progress |-> 0,
     partial |-> NoPartial, pending |-> NoPartial]
EmptyMap == [x \in {} |-> {}]

\* the calls that change the state of the service
MutatingOps ==
    {"create_role", "attach_role_policy", "detach_role_policy", "delete_role",
     "create_instance_profile", "delete_instance_profile",
     "add_role_to_instance_profile", "remove_role_from_instance_profile"}

Call(op, args, exc) == [op |-> op, args |-> args, exc |-> exc]

\* what the module's calls can change of the service's state
Account(s) == [roles |-> s.roles, attached |-> s.attached, profiles |-> s.profiles]
OpsOf(log) == [i \in DOMAIN log |-> log[i].op]
Mutations(log) == {i \in DOMAIN log : log[i].op \in MutatingOps /\ log[i].exc = "none"}

\* what the calls of a construction have built: nothing of a role (failed is
\* FALSE), or a role with these attachments, with or without a new profile
Built(log) ==
    LET done == {log[i] : i \in Mutations(log)}
    IN  IF \E c \in done : c.op = "create_role"
        THEN [failed |-> TRUE,
              attached |-> {c.args[2] : c \in {d \in done : d.op = "attach_role_policy"}},
              profile |-> \E c \in done : c.op = "create_instance_profile"]
        ELSE [failed |-> FALSE, attached |-> {}, profile |-> FALSE]

\* a foreign role of the account: created outside this module, without description
ForeignRole(name, principal) ==
    [Arn |-> RoleArn(name),
     AssumeRolePolicyDocument |->
        [Version |-> "2008-10-17",
         Statement |-> <<[Effect |-> "Allow",
                          Principal |-> [Service |-> principal],
                          Action |-> "sts:AssumeRole"]>>]]

\* the accounts a run starts from: without roles, or with one foreign role
InitialAccounts ==
    {[roles |-> EmptyMap, attached |-> EmptyMap, profiles |-> EmptyMap,
      policies |-> AwsPolicyNames]}
    \cup
    {[roles |-> [n \in {name} |-> ForeignRole(name, "ec2.amazonaws.com")],
      attached |-> [n \in {name} |-> {PolicyArn("AWSBatchServiceRole")}],
      profiles |-> EmptyMap,
      policies |-> AwsPolicyNames] : name \in NameInputs}

Init ==
    /\ iam \in InitialAccounts
    /\ obj = [o \in Objs |-> NoObj]
    /\ pc = [o \in Objs |-> "idle"]
    /\ frame = [o \in Objs |-> NoFrame]
    /\ calls = [o \in Objs |-> <<>>]
    /\ result = [o \in Objs |-> NoResult]
    /\ teardown = [o \in Objs |-> NoTeardown]

\* no method is running: the callers of the module are single-threaded
Quiescent == \A o \in Objs : pc[o] \in {"idle", "ready"}

(***************************************************************************)
(* How a method ends.                                                      *)
(***************************************************************************)
\* __init__ raises: no object is returned
RaiseInit(o, exc, log) ==
    /\ obj' = [obj EXCEPT ![o] = NoObj]
    /\ pc' = [pc EXCEPT ![o] = "idle"]
    /\ frame' = [frame EXCEPT ![o] = NoFrame]
    /\ calls' = [calls EXCEPT ![o] = log]
    /\ result' = [result EXCEPT ![o].exc = exc]
    /\ teardown' = [teardown EXCEPT ![o].pending = Built(log)]

\* __init__ returns, the attributes being attrs
ReturnInit(o, attrs, log) ==
    /\ obj' = [obj EXCEPT ![o] = attrs]
    /\ pc' = [pc EXCEPT ![o] = "ready"]
    /\ frame' = [frame EXCEPT ![o] = NoFrame]
    /\ calls' = [calls EXCEPT ![o] = log]
    /\ result' = [result EXCEPT ![o].exc = "none"]
    /\ UNCHANGED teardown

\* (a variant that forgets the arn when the method returns)
EndMethodClearsArn(o, exc, log) ==
    /\ pc' = [pc EXCEPT ![o] = "ready"]
    /\ frame' = [frame EXCEPT ![o] = NoFrame]
    /\ calls' = [calls EXCEPT ![o] = log]
    /\ result' = [result EXCEPT ![o].exc = exc]
    /\ teardown' = [teardown EXCEPT ![o] =
                      [@ EXCEPT !.aborted = @ \/ exc # "none",
                                !.returned = @ \/ exc = "none",
                                !.progress = @ + Cardinality(Mutations(log))]]
    /\ obj' = [obj EXCEPT ![o].arn = IF exc = "none" THEN PyNone ELSE @]

\* a method of a constructed object ends, raising exc or returning ("none")
EndMethod(o, exc, log) ==
    /\ pc' = [pc EXCEPT ![o] = "ready"]
    /\ frame' = [frame EXCEPT ![o] = NoFrame]
    /\ calls' = [calls EXCEPT ![o] = log]
    /\ result' = [result EXCEPT ![o].exc = exc]
    /\ teardown' = [teardown EXCEPT ![o] =
                      [@ EXCEPT !.aborted = @ \/ exc # "none",
                                !.returned = @ \/ exc = "none",
                                !.progress = @ + Cardinality(Mutations(log))]]
    /\ UNCHANGED obj

\* the method goes on to its next call
Goto(o, label, locals, log) ==
    /\ pc' = [pc EXCEPT ![o] = label]
    /\ frame' = [frame EXCEPT ![o] = locals]
    /\ calls' = [calls EXCEPT ![o] = log]
    /\ UNCHANGED <<result, teardown>>

\* what a call to the service raises: a failure of the service itself
\* (network, permission, throttling), or what the operation says
Raised(fault, exc) == IF fault THEN "ServiceError" ELSE exc

(***************************************************************************)
(* The caller has taken note of the outcome of the object's last method    *)
(* and is about to rebind its reference.                                   *)
(***************************************************************************)
Reset(o) ==
    /\ Quiescent
    /\ result[o].op # "none"
    /\ result' = [result EXCEPT ![o] = NoResult]
    /\ calls' = [calls EXCEPT ![o] = <<>>]
    /\ UNCHANGED <<iam, obj, pc, frame, teardown>>

(***************************************************************************)
(* IamRole.__init__ and IamRole._exists_already                            *)
(***************************************************************************)
\* __init__ is entered: ObjectWithArn.__init__ stores the name
Enter(o, name, description, service, policies, add_instance_profile) ==
    /\ obj' = [obj EXCEPT ![o] = [name |-> name]]
    /\ pc' = [pc EXCEPT ![o] = "get_role"]
    /\ frame' = [frame EXCEPT ![o] =
                    [description |-> description, service |-> service,
                     policies |-> policies,
                     add_instance_profile |-> add_instance_profile]]
    /\ calls' = [calls EXCEPT ![o] = <<>>]
    /\ result' = [result EXCEPT ![o] =
                    [op |-> "__init__", exc |-> "running", name |-> name,
                     description |-> description,
                     service |-> service, policies |-> policies,
                     add_instance_profile |-> add_instance_profile,
                     account |-> Account(iam)]]
    /\ teardown' = [teardown EXCEPT ![o] =
                      [NoTeardown EXCEPT !.partial = teardown[o].pending]]
    /\ UNCHANGED iam

\* the caller evaluates IamRole(name, description, service, policies,
\* add_instance_profile), no other method running
Construct(o, name, description, service, policies, add_instance_profile) ==
    /\ Quiescent
    /\ result[o].op = "none"
    /\ Enter(o, name, description, service, policies, add_instance_profile)

\* (a variant whose instance-profile flag defaults to False)
RoleExistsNotFoundFlagFalse ==
    [exists |-> FALSE, description |-> PyNone, role_policy_document |-> PyNone,
     policies |-> PyNone, add_instance_profile |-> PyBool(FALSE), arn |-> PyNone]

\* RoleExists(exists=False): the remaining fields default to None
RoleExistsNotFound ==
    [exists |-> FALSE, description |-> PyNone, role_policy_document |-> PyNone,
     policies |-> PyNone, add_instance_profile |-> PyNone, arn |-> PyNone]

\* (a variant that reports no attached policy)
RoleExistsFoundNoPolicies(description, role_policy, policies, arn) ==
    [exists |-> TRUE, description |-> PyStr(description),
     role_policy_document |-> PyDict(role_policy), policies |-> PyTuple(<<>>),
     add_instance_profile |-> PyBool(FALSE), arn |-> PyStr(arn)]

\* (a variant that reports the role found as absent)
RoleExistsFoundAbsent(description, role_policy, policies, arn) ==
    [exists |-> FALSE, description |-> PyStr(description),
     role_policy_document |-> PyDict(role_policy), policies |-> policies,
     add_instance_profile |-> PyBool(FALSE), arn |-> PyStr(arn)]

\* (a variant that reports an instance profile)
RoleExistsFoundWithProfile(description, role_policy, policies, arn) ==
    [exists |-> TRUE, description |-> PyStr(description),
     role_policy_document |-> PyDict(role_policy), policies |-> policies,
     add_instance_profile |-> PyBool(TRUE), arn |-> PyStr(arn)]

\* RoleExists(exists=True, ...) of lines 158-162
RoleExistsFound(description, role_policy, policies, arn) ==
    [exists |-> TRUE, description |-> PyStr(description),
     role_policy_document |-> PyDict(role_policy), policies |-> policies,
     add_instance_profile |-> PyBool(FALSE), arn |-> PyStr(arn)]

\* _exists_already, first call: IAM.get_role
ExistsGetRole(o) ==
    /\ pc[o] = "get_role"
    /\ \E fault \in BOOLEAN :
        LET name == obj[o].name
            exc == Raised(fault, IAM_get_role_exc(iam, name))
            log == Append(calls[o], Call("get_role", <<name>>, exc))
            role == IAM_get_role(iam, name).Role
        IN  /\ UNCHANGED iam
            /\ CASE exc = "none" ->
                      /\ Goto(o, "list_attached_role_policies",
                              [arn |-> role.Arn,
                               probe_description |->
                                  IF "Description" \in DOMAIN role
                                  THEN role.Description ELSE "",
                               role_policy |-> role.AssumeRolePolicyDocument] @@ frame[o],
                              log)
                      /\ UNCHANGED obj
                 [] exc = "NoSuchEntity" ->
                      /\ Goto(o, "probed",
                              [role_exists |-> RoleExistsNotFound] @@ frame[o], log)
                      /\ UNCHANGED obj
                 [] OTHER -> RaiseInit(o, exc, log)

\* _exists_already, second call: IAM.list_attached_role_policies
ExistsListAttached(o) ==
    /\ pc[o] = "list_attached_role_policies"
    /\ \E fault \in BOOLEAN :
        LET name == obj[o].name
            exc == Raised(fault, IAM_list_attached_role_policies_exc(iam, name))
            log == Append(calls[o], Call("list_attached_role_policies", <<name>>, exc))
        IN  /\ UNCHANGED iam
            /\ CASE exc = "none" ->
                      \E response \in IAM_list_attached_role_policies(iam, name) :
                        LET attached_policies == response.AttachedPolicies
                            policies ==
                                PyTuple([i \in DOMAIN attached_policies |->
                                            PyStr(attached_policies[i].PolicyName)])
                        IN  /\ Goto(o, "probed",
                                    [role_exists |->
                                        RoleExistsFound(frame[o].probe_description,
                                                        frame[o].role_policy,
                                                        policies, frame[o].arn)]
                                    @@ frame[o],
                                    log)
                            /\ UNCHANGED obj
                 [] exc = "NoSuchEntity" ->
                      /\ Goto(o, "probed",
                              [role_exists |-> RoleExistsNotFound] @@ frame[o], log)
                      /\ UNCHANGED obj
                 [] OTHER -> RaiseInit(o, exc, log)

\* (a variant that lets every service through)
ServiceAllowedAny(service) == TRUE

\* `service in self._allowed_services`
ServiceAllowed(service) ==
    \E i \in DOMAIN _allowed_services : _allowed_services[i] = service

\* (a variant that names the default service whatever the argument)
RolePolicyDefaultService(service) ==
    [Version |-> "2012-10-17",
     Statement |-> <<[Sid |-> "",
                      Effect |-> "Allow",
                      Principal |-> [Service |-> "ecs-tasks.amazonaws.com"],
                      Action |-> "sts:AssumeRole"]>>]

\* the trust policy of lines 65-75
RolePolicy(service) ==
    [Version |-> "2012-10-17",
     Statement |-> <<[Sid |-> "",
                      Effect |-> "Allow",
                      Principal |-> [Service |-> service],
                      Action |-> "sts:AssumeRole"]>>]

\* lines 55-58
DescriptionOf(description) ==
    IF Truthy(description) THEN description
    ELSE PyStr("This role was generated by cloudknot")

\* __init__ after the probe: adopt the role found (lines 45-53), or set the
\* description, check the service and build the trust policy (lines 54-76)
InitBranch(o) ==
    /\ pc[o] = "probed"
    /\ UNCHANGED iam
    /\ LET role_exists == frame[o].role_exists
           service == frame[o].service
       IN  IF role_exists.exists
           THEN ReturnInit(o,
                    [pre_existing |-> PyBool(role_exists.exists),
                     description |-> role_exists.description,
                     service |-> PyNone,
                     role_policy_document |-> role_exists.role_policy_document,
                     policies |-> role_exists.policies,
                     add_instance_profile |-> role_exists.add_instance_profile,
                     arn |-> role_exists.arn] @@ obj[o],
                    calls[o])
           ELSE IF ServiceAllowed(service)
           THEN /\ obj' = [obj EXCEPT ![o] =
                              [pre_existing |-> PyBool(role_exists.exists),
                               description |-> DescriptionOf(frame[o].description),
                               service |-> PyStr(service \o ".amazonaws.com"),
                               role_policy_document |->
                                   PyDict(RolePolicy(service \o ".amazonaws.com"))] @@ @]
                /\ pc' = [pc EXCEPT ![o] = "list_policies"]
                /\ UNCHANGED <<frame, calls, result, teardown>>
           ELSE RaiseInit(o, "InvalidServicePrincipal", calls[o])

\* lines 83-89: the set of the names given, when policies is a string or a
\* sequence of strings
PoliciesWellFormed(policies) ==
    \/ IsStr(policies)
    \/ \A i \in DOMAIN policies.q : IsStr(policies.q[i])
InputPolicies(policies) ==
    IF IsStr(policies) THEN {policies.s}
    ELSE {policies.q[i].s : i \in DOMAIN policies.q}

\* (a variant that keeps the argument as given: `tuple(policies)`)
PoliciesTupleAsGiven(policies) ==
    IF IsStr(policies) THEN {PyTuple(<<policies>>)} ELSE {policies}

\* line 95: `tuple(input_policies)`, the set in one of its orders
PoliciesTuple(policies) ==
    {PyTuple([i \in DOMAIN q |-> PyStr(q[i])]) : q \in Orders(InputPolicies(policies))}

\* line 91: `input_policies < set(aws_policies)`
PoliciesAccepted(input_policies, aws_policies) ==
    input_policies \subseteq aws_policies /\ input_policies # aws_policies

\* lines 80-100: fetch the account's policies, check the policies given
\* against them, check the instance-profile flag
InitListPolicies(o) ==
    /\ pc[o] = "list_policies"
    /\ UNCHANGED iam
    /\ \E fault \in BOOLEAN :
        LET exc == Raised(fault, "none")
            response == IAM_list_policies(iam)
            aws_policies == {d.PolicyName : d \in response.Policies}
            log == Append(calls[o], Call("list_policies", <<aws_policies>>, exc))
            policies == frame[o].policies
            add_instance_profile == frame[o].add_instance_profile
        IN  IF exc # "none" THEN RaiseInit(o, exc, log)
            ELSE IF ~PoliciesWellFormed(policies) THEN RaiseInit(o, "InvalidPolicySet", log)
            ELSE IF ~PoliciesAccepted(InputPolicies(policies), aws_policies)
                 THEN RaiseInit(o, "InvalidPolicySet", log)
            ELSE IF ~IsBool(add_instance_profile)
                 THEN RaiseInit(o, "InvalidInstanceProfileFlag", log)
            ELSE \E self_policies \in PoliciesTuple(policies) :
                    /\ obj' = [obj EXCEPT ![o] =
                                  [policies |-> self_policies,
                                   add_instance_profile |-> add_instance_profile] @@ @]
                    /\ Goto(o, "create_role", frame[o], log)

(***************************************************************************)
(* IamRole._create                                                         *)
(***************************************************************************)
\* (a variant that returns nothing where _create returns role_arn)
ContinueCreateNoArn(o, i, locals, log) ==
    IF i <= Len(obj[o].policies.q)
    THEN /\ Goto(o, "attach_role_policy", [i |-> i] @@ locals, log)
         /\ UNCHANGED obj
    ELSE IF Truthy(obj[o].add_instance_profile)
    THEN /\ Goto(o, "create_instance_profile",
                 [instance_profile_name |-> obj[o].name \o "-instance-profile"] @@ locals,
                 log)
         /\ UNCHANGED obj
    ELSE ReturnInit(o, [arn |-> PyNone] @@ obj[o], log)

\* (a variant that makes the instance profile whatever the flag)
ContinueCreateProfileAlways(o, i, locals, log) ==
    IF i <= Len(obj[o].policies.q)
    THEN /\ Goto(o, "attach_role_policy", [i |-> i] @@ locals, log)
         /\ UNCHANGED obj
    ELSE /\ Goto(o, "create_instance_profile",
                 [instance_profile_name |-> obj[o].name \o "-instance-profile"] @@ locals,
                 log)
         /\ UNCHANGED obj

\* after an attach, or with nothing to attach: the next policy, then the
\* instance profile if asked for, then `return role_arn` into self._arn
ContinueCreate(o, i, locals, log) ==
    IF i <= Len(obj[o].policies.q)
    THEN /\ Goto(o, "attach_role_policy", [i |-> i] @@ locals, log)
         /\ UNCHANGED obj
    ELSE IF Truthy(obj[o].add_instance_profile)
    THEN /\ Goto(o, "create_instance_profile",
                 [instance_profile_name |-> obj[o].name \o "-instance-profile"] @@ locals,
                 log)
         /\ UNCHANGED obj
    ELSE ReturnInit(o, [arn |-> PyStr(locals.role_arn)] @@ obj[o], log)

\* lines 174-183
CreateRole(o) ==
    /\ pc[o] = "create_role"
    /\ \E fault \in BOOLEAN :
        LET name == obj[o].name
            document == JsonDumps(obj[o].role_policy_document.d)
            exc == Raised(fault, IAM_create_role_exc(iam, name))
            log == Append(calls[o], Call("create_role", <<name, document>>, exc))
            after == IAM_create_role(iam, name, document, obj[o].description.s)
        IN  IF exc # "none"
            THEN RaiseInit(o, exc, log) /\ UNCHANGED iam
            ELSE /\ iam' = after
                 /\ Goto(o, "list_policies_create",
                         [role_arn |-> after.roles[name].Arn] @@ frame[o], log)
                 /\ UNCHANGED obj

\* line 185
CreateListPolicies(o) ==
    /\ pc[o] = "list_policies_create"
    /\ UNCHANGED iam
    /\ \E fault \in BOOLEAN :
        LET exc == Raised(fault, "none")
            policy_response == IAM_list_policies(iam)
            log == Append(calls[o],
                          Call("list_policies",
                               <<{d.PolicyName : d \in policy_response.Policies}>>, exc))
        IN  IF exc # "none" THEN RaiseInit(o, exc, log)
            ELSE ContinueCreate(o, 1, [policy_response |-> policy_response] @@ frame[o], log)

\* lines 187-190: the entries of the response that carry the name
PolicyFilter(policy, policy_response) ==
    {p \in policy_response.Policies : p.PolicyName = policy}

\* (a variant that passes over a policy the list no longer holds)
AttachRolePolicySkipMissing(o) ==
    /\ pc[o] = "attach_role_policy"
    /\ LET name == obj[o].name
           policy == obj[o].policies.q[frame[o].i].s
           policy_filter == PolicyFilter(policy, frame[o].policy_response)
       IN  IF policy_filter = {}
           THEN ContinueCreate(o, frame[o].i + 1, frame[o], calls[o]) /\ UNCHANGED iam
           ELSE \E fault \in BOOLEAN :
                LET policy_arn == (CHOOSE p \in policy_filter : TRUE).Arn
                    exc == Raised(fault, IAM_attach_role_policy_exc(iam, name, policy_arn))
                    log == Append(calls[o],
                                  Call("attach_role_policy", <<name, policy_arn>>, exc))
                IN  IF exc # "none"
                    THEN RaiseInit(o, exc, log) /\ UNCHANGED iam
                    ELSE /\ iam' = IAM_attach_role_policy(iam, name, policy_arn)
                         /\ ContinueCreate(o, frame[o].i + 1, frame[o], log)

\* lines 186-197, one turn of the loop
AttachRolePolicy(o) ==
    /\ pc[o] = "attach_role_policy"
    /\ LET name == obj[o].name
           policy == obj[o].policies.q[frame[o].i].s
           policy_filter == PolicyFilter(policy, frame[o].policy_response)
       IN  IF policy_filter = {}
           THEN RaiseInit(o, "IndexError", calls[o]) /\ UNCHANGED iam
           ELSE \E fault \in BOOLEAN :
                LET policy_arn == (CHOOSE p \in policy_filter : TRUE).Arn
                    exc == Raised(fault, IAM_attach_role_policy_exc(iam, name, policy_arn))
                    log == Append(calls[o],
                                  Call("attach_role_policy", <<name, policy_arn>>, exc))
                IN  IF exc # "none"
                    THEN RaiseInit(o, exc, log) /\ UNCHANGED iam
                    ELSE /\ iam' = IAM_attach_role_policy(iam, name, policy_arn)
                         /\ ContinueCreate(o, frame[o].i + 1, frame[o], log)

\* lines 204-208
CreateInstanceProfile(o) ==
    /\ pc[o] = "create_instance_profile"
    /\ \E fault \in BOOLEAN :
        LET profile == frame[o].instance_profile_name
            exc == Raised(fault, IAM_create_instance_profile_exc(iam, profile))
            log == Append(calls[o], Call("create_instance_profile", <<profile>>, exc))
        IN  IF exc # "none"
            THEN RaiseInit(o, exc, log) /\ UNCHANGED iam
            ELSE /\ iam' = IAM_create_instance_profile(iam, profile)
                 /\ Goto(o, "add_role_to_instance_profile", frame[o], log)
                 /\ UNCHANGED obj

\* lines 210-220
AddRoleToInstanceProfile(o) ==
    /\ pc[o] = "add_role_to_instance_profile"
    /\ \E fault \in BOOLEAN :
        LET profile == frame[o].instance_profile_name
            name == obj[o].name
            exc == Raised(fault, IAM_add_role_to_instance_profile_exc(iam, profile, name))
            log == Append(calls[o],
                          Call("add_role_to_instance_profile", <<profile, name>>, exc))
        IN  IF exc # "none"
            THEN RaiseInit(o, exc, log) /\ UNCHANGED iam
            ELSE /\ iam' = IAM_add_role_to_instance_profile(iam, profile, name)
                 /\ ReturnInit(o, [arn |-> PyStr(frame[o].role_arn)] @@ obj[o], log)

(***************************************************************************)
(* IamRole.instance_profile_arn                                            *)
(***************************************************************************)
\* lines 222-232: the first instance profile of the role, or None
InstanceProfileArn(o) ==
    /\ Quiescent
    /\ pc[o] = "ready"
    /\ \E fault \in BOOLEAN :
        LET name == obj[o].name
            exc == Raised(fault, IAM_list_instance_profiles_for_role_exc(iam, name))
            log == <<Call("list_instance_profiles_for_role", <<name>>, exc)>>
        IN  \E response \in IF exc = "none"
                            THEN IAM_list_instance_profiles_for_role(iam, name)
                            ELSE {[InstanceProfiles |-> <<>>]} :
              /\ result' = [result EXCEPT ![o] =
                              [op |-> "instance_profile_arn", exc |-> exc,
                               value |-> IF exc = "none" /\ response.InstanceProfiles # <<>>
                                         THEN PyStr(response.InstanceProfiles[1].Arn)
                                         ELSE PyNone]]
              /\ calls' = [calls EXCEPT ![o] = log]
              /\ UNCHANGED <<iam, obj, pc, frame, teardown>>

(***************************************************************************)
(* IamRole.remove_aws_resource                                             *)
(***************************************************************************)
\* (a variant that never looks at the instance profile)
RemoveAwsResourceNoProfile(o) ==
    /\ Quiescent
    /\ pc[o] = "ready"
    /\ pc' = [pc EXCEPT ![o] = "list_policies_remove"]
    /\ frame' = [frame EXCEPT ![o] = [self |-> o]]
    /\ calls' = [calls EXCEPT ![o] = <<>>]
    /\ result' = [result EXCEPT ![o] =
                    [op |-> "remove_aws_resource", exc |-> "running",
                     before |-> teardown[o]]]
    /\ UNCHANGED <<iam, obj, teardown>>

\* the caller invokes remove_aws_resource(); line 241
RemoveAwsResource(o) ==
    /\ Quiescent
    /\ pc[o] = "ready"
    /\ pc' = [pc EXCEPT ![o] =
                IF Truthy(obj[o].add_instance_profile)
                THEN "list_instance_profiles_for_role" ELSE "list_policies_remove"]
    /\ frame' = [frame EXCEPT ![o] = [self |-> o]]
    /\ calls' = [calls EXCEPT ![o] = <<>>]
    /\ result' = [result EXCEPT ![o] =
                    [op |-> "remove_aws_resource", exc |-> "running",
                     before |-> teardown[o]]]
    /\ UNCHANGED <<iam, obj, teardown>>

\* (a variant that goes on to the policies when no profile is bound)
RemoveListInstanceProfilesSkipEmpty(o) ==
    /\ pc[o] = "list_instance_profiles_for_role"
    /\ UNCHANGED iam
    /\ \E fault \in BOOLEAN :
        LET name == obj[o].name
            exc == Raised(fault, IAM_list_instance_profiles_for_role_exc(iam, name))
            log == Append(calls[o], Call("list_instance_profiles_for_role", <<name>>, exc))
        IN  IF exc # "none" THEN EndMethod(o, exc, log)
            ELSE \E response \in IAM_list_instance_profiles_for_role(iam, name) :
                    /\ Goto(o,
                            IF response.InstanceProfiles = <<>>
                            THEN "list_policies_remove"
                            ELSE "remove_role_from_instance_profile",
                            IF response.InstanceProfiles = <<>> THEN frame[o]
                            ELSE [instance_profile_name |->
                                     response.InstanceProfiles[1].InstanceProfileName]
                                 @@ frame[o],
                            log)
                    /\ UNCHANGED obj

\* lines 242-246
RemoveListInstanceProfiles(o) ==
    /\ pc[o] = "list_instance_profiles_for_role"
    /\ UNCHANGED iam
    /\ \E fault \in BOOLEAN :
        LET name == obj[o].name
            exc == Raised(fault, IAM_list_instance_profiles_for_role_exc(iam, name))
            log == Append(calls[o], Call("list_instance_profiles_for_role", <<name>>, exc))
        IN  IF exc # "none" THEN EndMethod(o, exc, log)
            ELSE \E response \in IAM_list_instance_profiles_for_role(iam, name) :
                    IF response.InstanceProfiles = <<>>
                    THEN EndMethod(o, "IndexError", log)
                    ELSE /\ Goto(o, "remove_role_from_instance_profile",
                                 [instance_profile_name |->
                                     response.InstanceProfiles[1].InstanceProfileName]
                                 @@ frame[o],
                                 log)
                         /\ UNCHANGED obj

\* lines 247-250
RemoveRoleFromInstanceProfile(o) ==
    /\ pc[o] = "remove_role_from_instance_profile"
    /\ \E fault \in BOOLEAN :
        LET profile == frame[o].instance_profile_name
            name == obj[o].name
            exc == Raised(fault,
                          IAM_remove_role_from_instance_profile_exc(iam, profile, name))
            log == Append(calls[o],
                          Call("remove_role_from_instance_profile", <<profile, name>>, exc))
        IN  IF exc # "none"
            THEN EndMethod(o, exc, log) /\ UNCHANGED iam
            ELSE /\ iam' = IAM_remove_role_from_instance_profile(iam, profile, name)
                 /\ Goto(o, "delete_instance_profile", frame[o], log)
                 /\ UNCHANGED obj

\* lines 251-253
DeleteInstanceProfile(o) ==
    /\ pc[o] = "delete_instance_profile"
    /\ \E fault \in BOOLEAN :
        LET profile == frame[o].instance_profile_name
            exc == Raised(fault, IAM_delete_instance_profile_exc(iam, profile))
            log == Append(calls[o], Call("delete_instance_profile", <<profile>>, exc))
        IN  IF exc # "none"
            THEN EndMethod(o, exc, log) /\ UNCHANGED iam
            ELSE /\ iam' = IAM_delete_instance_profile(iam, profile)
                 /\ Goto(o, "list_policies_remove", frame[o], log)
                 /\ UNCHANGED obj

\* (a variant that goes to the role without detaching)
ContinueRemoveNoDetach(o, i, locals, log) ==
    /\ Goto(o, "delete_role", [i |-> i] @@ locals, log)
    /\ UNCHANGED obj

\* after a detach, or with nothing to detach: the next policy, then the role
ContinueRemove(o, i, locals, log) ==
    /\ Goto(o,
            IF i <= Len(obj[o].policies.q) THEN "detach_role_policy" ELSE "delete_role",
            [i |-> i] @@ locals, log)
    /\ UNCHANGED obj

\* line 255
RemoveListPolicies(o) ==
    /\ pc[o] = "list_policies_remove"
    /\ UNCHANGED iam
    /\ \E fault \in BOOLEAN :
        LET exc == Raised(fault, "none")
            policy_response == IAM_list_policies(iam)
            log == Append(calls[o],
                          Call("list_policies",
                               <<{d.PolicyName : d \in policy_response.Policies}>>, exc))
        IN  IF exc # "none" THEN EndMethod(o, exc, log)
            ELSE ContinueRemove(o, 1, [policy_response |-> policy_response] @@ frame[o], log)

\* lines 256-267, one turn of the loop
DetachRolePolicy(o) ==
    /\ pc[o] = "detach_role_policy"
    /\ LET name == obj[o].name
           policy == obj[o].policies.q[frame[o].i].s
           policy_filter == PolicyFilter(policy, frame[o].policy_response)
       IN  IF policy_filter = {}
           THEN EndMethod(o, "IndexError", calls[o]) /\ UNCHANGED iam
           ELSE \E fault \in BOOLEAN :
                LET policy_arn == (CHOOSE p \in policy_filter : TRUE).Arn
                    exc == Raised(fault, IAM_detach_role_policy_exc(iam, name, policy_arn))
                    log == Append(calls[o],
                                  Call("detach_role_policy", <<name, policy_arn>>, exc))
                IN  IF exc # "none"
                    THEN EndMethod(o, exc, log) /\ UNCHANGED iam
                    ELSE /\ iam' = IAM_detach_role_policy(iam, name, policy_arn)
                         /\ ContinueRemove(o, frame[o].i + 1, frame[o], log)

\* lines 269-274
DeleteRole(o) ==
    /\ pc[o] = "delete_role"
    /\ \E fault \in BOOLEAN :
        LET name == obj[o].name
            exc == Raised(fault, IAM_delete_role_exc(iam, name))
            log == Append(calls[o], Call("delete_role", <<name>>, exc))
        IN  IF exc # "none"
            THEN EndMethod(o, exc, log) /\ UNCHANGED iam
            ELSE /\ iam' = IAM_delete_role(iam, name)
                 /\ EndMethod(o, "none", log)

(***************************************************************************)
(* The account changes under the module: a managed policy leaves the list  *)
(* of the account's policies, or enters it.                                *)
(***************************************************************************)
PolicyVanishes(n) ==
    /\ n \in iam.policies
    /\ iam' = [iam EXCEPT !.policies = @ \ {n}]
    /\ UNCHANGED <<obj, pc, frame, calls, result, teardown>>

PolicyAppears(n) ==
    /\ n \in AwsPolicyNames \ iam.policies
    /\ iam' = [iam EXCEPT !.policies = @ \cup {n}]
    /\ UNCHANGED <<obj, pc, frame, calls, result, teardown>>

(***************************************************************************)
(* The steps of the methods, whoever called them.                          *)
(***************************************************************************)
ConstructorStep(o) ==
    \/ ExistsGetRole(o)
    \/ ExistsListAttached(o)
    \/ InitBranch(o)
    \/ InitListPolicies(o)
    \/ CreateRole(o)
    \/ CreateListPolicies(o)
    \/ AttachRolePolicy(o)
    \/ CreateInstanceProfile(o)
    \/ AddRoleToInstanceProfile(o)

RemovalStep(o) ==
    \/ RemoveListInstanceProfiles(o)
    \/ RemoveRoleFromInstanceProfile(o)
    \/ DeleteInstanceProfile(o)
    \/ RemoveListPolicies(o)
    \/ DetachRolePolicy(o)
    \/ DeleteRole(o)

Step(o) == ConstructorStep(o) \/ RemovalStep(o)

(***************************************************************************)
(* The specification: single-threaded callers, each method running its     *)
(* calls in order, the account changing at any moment.                     *)
(***************************************************************************)
Next ==
    \/ \E o \in Objs, name \in NameInputs, a \in ConstructInputs :
            Construct(o, name, a.description, a.service, a.policies, a.add_instance_profile)
    \/ \E o \in Objs : Reset(o)
    \/ \E o \in Objs : Step(o)
    \/ \E o \in Objs : InstanceProfileArn(o)
    \/ \E o \in Objs : RemoveAwsResource(o)
    \/ \E n \in AwsPolicyNames : PolicyVanishes(n)
    \/ \E n \in AwsPolicyNames : PolicyAppears(n)

Spec == Init /\ [][Next]_vars

(***************************************************************************)
(* Two callers, each constructing an IamRole for the same name in an       *)
(* account without roles, the steps of their constructors interleaved:     *)
(* the module holds no lock and the service offers it none.                *)
(***************************************************************************)
Callers == {"first", "second"}

\* what the two callers ask for
ConcurrentInputs ==
    {Arguments(PyNone, "batch", PyStr("AmazonS3ReadOnlyAccess"), PyBool(TRUE)),
     Arguments(PyStr("my description"), "ecs-tasks", PyTuple(<<>>), PyBool(FALSE))}

InitConcurrent ==
    /\ iam = [roles |-> EmptyMap, attached |-> EmptyMap, profiles |-> EmptyMap,
              policies |-> AwsPolicyNames]
    /\ obj = [o \in Callers |-> NoObj]
    /\ pc = [o \in Callers |-> "idle"]
    /\ frame = [o \in Callers |-> NoFrame]
    /\ calls = [o \in Callers |-> <<>>]
    /\ result = [o \in Callers |-> NoResult]
    /\ teardown = [o \in Callers |-> NoTeardown]

\* a caller that has not yet done so evaluates IamRole(...), whatever the other
\* caller is doing
ConstructConcurrently(o, name, a) ==
    /\ pc[o] = "idle"
    /\ result[o].op = "none"
    /\ Enter(o, name, a.description, a.service, a.policies, a.add_instance_profile)

NextConcurrent ==
    \/ \E o \in Callers, name \in NameInputs, a \in ConcurrentInputs :
            ConstructConcurrently(o, name, a)
    \/ \E o \in Callers : ConstructorStep(o)

SpecConcurrent == InitConcurrent /\ [][NextConcurrent]_vars

(***************************************************************************)
(* What the properties speak of.                                           *)
(***************************************************************************)
\* the method op of object o has ended, by returning or by raising
Ended(o, op) == pc[o] \in {"idle", "ready"} /\ result[o].op = op /\ result[o].exc # "running"

\* the service principals the specification allows
AllowedPrincipals == {"batch", "ec2", "ecs-tasks", "lambda", "spotfleet"}

\* the calls of the log that were issued to operations changing the service
MutatingCalls(log) == {i \in DOMAIN log : log[i].op \in MutatingOps}

\* no call of the log failed for a reason of the service itself
NoFault(log) == \A i \in DOMAIN log : log[i].exc # "ServiceError"

(***************************************************************************)
(* C1.  As stated: constructing with a service principal outside the       *)
(* allowed set fails with InvalidServicePrincipal with no call at all made *)
(* to the IAM service, whether or not the role exists.                     *)
(***************************************************************************)
C1_Original ==
    \A o \in Objs :
        Ended(o, "__init__") /\ result[o].service \notin AllowedPrincipals
        => result[o].exc = "InvalidServicePrincipal" /\ calls[o] = <<>>

(***************************************************************************)
(* C1, amended.  A construction with a service principal outside the       *)
(* allowed set issues get_role first and never a mutating call.  When      *)
(* get_role reports no such role the construction fails with               *)
(* InvalidServicePrincipal and get_role is its only call; when the role    *)
(* exists the construction adopts it, whatever the principal.              *)
(***************************************************************************)
C1_InvalidPrincipal ==
    \A o \in Objs :
        Ended(o, "__init__") /\ result[o].service \notin AllowedPrincipals
        => /\ Len(calls[o]) >= 1 /\ calls[o][1].op = "get_role"
           /\ MutatingCalls(calls[o]) = {}
           /\ result[o].exc \in {"InvalidServicePrincipal", "none", "ServiceError"}
           /\ calls[o][1].exc = "NoSuchEntity"
                => result[o].exc = "InvalidServicePrincipal" /\ Len(calls[o]) = 1
           /\ calls[o][1].exc = "none" /\ NoFault(calls[o])
                => result[o].exc = "none" /\ obj[o].pre_existing = PyBool(TRUE)

\* a construction with an invalid principal has failed, and one has adopted
C1_Witness ==
    \E o \in Objs :
        /\ Ended(o, "__init__") /\ result[o].service = "invalid-service"
        /\ result[o].exc = "InvalidServicePrincipal"
        /\ result[o].name \notin DOMAIN iam.roles

(***************************************************************************)
(* The policies of a construction, as the specification reads them.        *)
(***************************************************************************)
\* the policies argument is a single string or a collection of strings
WellFormed(policies) ==
    policies.t = "str" \/ (policies.t = "tuple" /\ \A x \in Range(policies.q) : x.t = "str")

\* the names requested, repeats collapsed
Requested(policies) ==
    IF policies.t = "str" THEN {policies.s} ELSE {x.s : x \in Range(policies.q)}

\* the construction found no role and its principal passed: it fetched the
\* account's policies, and the service answered
Resolved(o) ==
    /\ Ended(o, "__init__")
    /\ Len(calls[o]) >= 2
    /\ calls[o][2].op = "list_policies" /\ calls[o][2].exc = "none"

\* the policies the account listed when the construction resolved its own
Available(o) == calls[o][2].args[1]

(***************************************************************************)
(* C2.  For a well-formed policies argument, resolution fails with         *)
(* InvalidPolicySet if and only if some requested name is not among the    *)
(* available ones; with every requested name available (also when the      *)
(* requested set is the available set, or both are empty) it succeeds with *)
(* exactly the requested names.                                            *)
(***************************************************************************)
C2_Original ==
    \A o \in Objs :
        Resolved(o) /\ WellFormed(result[o].policies)
        => /\ result[o].exc = "InvalidPolicySet"
                <=> ~(Requested(result[o].policies) \subseteq Available(o))
           /\ result[o].exc = "none"
                => {x.s : x \in Range(obj[o].policies.q)} = Requested(result[o].policies)

(***************************************************************************)
(* C3.  For a name not present externally, a valid principal and any set   *)
(* of available policies, constructing with an empty policy set (and       *)
(* without instance profile, the service answering every call) succeeds,   *)
(* with a non-empty arn, preExisting false, no attached policy and no      *)
(* attach call.                                                            *)
(***************************************************************************)
C3_Original ==
    \A o \in Objs :
        /\ Ended(o, "__init__")
        /\ calls[o][1].exc = "NoSuchEntity"
        /\ result[o].service \in AllowedPrincipals
        /\ result[o].policies = PyTuple(<<>>)
        /\ result[o].add_instance_profile = PyBool(FALSE)
        /\ NoFault(calls[o])
        => /\ result[o].exc = "none"
           /\ obj[o].arn.t = "str" /\ obj[o].arn.s # ""
           /\ obj[o].pre_existing = PyBool(FALSE)
           /\ obj[o].policies = PyTuple(<<>>)
           /\ \A i \in DOMAIN calls[o] : calls[o][i].op # "attach_role_policy"

(***************************************************************************)
(* C4.  A construction for a name whose role exists adopts it, whatever    *)
(* the arguments: preExisting is true, the service principal unset, arn    *)
(* and trust policy those of the external role, the policies those         *)
(* attached externally, the instance-profile flag false; its only calls    *)
(* are get_role and list_attached_role_policies.                           *)
(***************************************************************************)
C4_Adoption ==
    \A o \in Objs :
        Ended(o, "__init__") /\ calls[o][1].exc = "none"
        => /\ MutatingCalls(calls[o]) = {}
           /\ result[o].exc \in {"none", "ServiceError"}
           /\ NoFault(calls[o]) => result[o].exc = "none"
           /\ result[o].exc = "none" =>
                LET name == result[o].name
                    role == iam.roles[name]
                IN  /\ OpsOf(calls[o]) = <<"get_role", "list_attached_role_policies">>
                    /\ obj[o].name = name
                    /\ obj[o].pre_existing = PyBool(TRUE)
                    /\ obj[o].service = PyNone
                    /\ obj[o].arn = PyStr(role.Arn)
                    /\ obj[o].role_policy_document = PyDict(role.AssumeRolePolicyDocument)
                    /\ {PolicyArn(x.s) : x \in Range(obj[o].policies.q)} = iam.attached[name]
                    /\ Len(obj[o].policies.q) = Cardinality(iam.attached[name])
                    /\ obj[o].add_instance_profile = PyBool(FALSE)

\* a role with attached policies and a bound instance profile is adopted by a
\* construction whose principal, policies and flag are all invalid
C4_Witness ==
    \E o \in Objs :
        /\ Ended(o, "__init__") /\ result[o].exc = "none"
        /\ obj[o].pre_existing = PyBool(TRUE)
        /\ result[o].service = "invalid-service"
        /\ result[o].policies = PyTuple(<<PyInt(7)>>)
        /\ result[o].add_instance_profile = PyInt(1)
        /\ Cardinality(iam.attached[result[o].name]) = 2
        /\ \E p \in DOMAIN iam.profiles : result[o].name \in iam.profiles[p]

(***************************************************************************)
(* C5.  Destroy after construct.  For a role this object created with an   *)
(* instance profile and n policies, and not yet touched by a destroy: a    *)
(* remove_aws_resource that returns has issued, as its mutating calls and  *)
(* in this order, one remove_role_from_instance_profile, one               *)
(* delete_instance_profile, one detach_role_policy per policy and one      *)
(* delete_role, and leaves neither the role, nor its attachments, nor the  *)
(* profile <name>-instance-profile; and it does return unless the service  *)
(* fails or a policy has left the account's list.                          *)
(***************************************************************************)
IsMutatingCall(c) == c.op \in MutatingOps

\* the method stopped on the lookup of a policy that has left the list
PolicyLookupFailed(o) ==
    /\ result[o].exc = "IndexError"
    /\ calls[o][Len(calls[o])].op \in {"list_policies", "detach_role_policy"}

\* the role of the object, its attachments and its instance profile are gone
TornDown(o) ==
    LET name == obj[o].name
    IN  /\ name \notin DOMAIN iam.roles
        /\ name \notin DOMAIN iam.attached
        /\ \A p \in DOMAIN iam.profiles : name \notin iam.profiles[p]
        /\ obj[o].add_instance_profile = PyBool(TRUE)
             => (name \o "-instance-profile") \notin DOMAIN iam.profiles

C5_RoundTrip ==
    \A o \in Objs :
        /\ Ended(o, "remove_aws_resource")
        /\ result[o].before = NoTeardown
        /\ obj[o].pre_existing = PyBool(FALSE)
        /\ obj[o].add_instance_profile = PyBool(TRUE)
        => LET name == obj[o].name
               profile == name \o "-instance-profile"
               P == obj[o].policies.q
           IN  /\ NoFault(calls[o]) /\ ~PolicyLookupFailed(o) => result[o].exc = "none"
               /\ result[o].exc = "none" =>
                    /\ SelectSeq(calls[o], IsMutatingCall)
                         = <<Call("remove_role_from_instance_profile", <<profile, name>>, "none"),
                             Call("delete_instance_profile", <<profile>>, "none")>>
                           \o [i \in 1 .. Len(P) |->
                                 Call("detach_role_policy", <<name, PolicyArn(P[i].s)>>, "none")]
                           \o <<Call("delete_role", <<name>>, "none")>>
                    /\ Cardinality(Range(P)) = Len(P)
                    /\ TornDown(o)

\* the specification's case: created with a profile and two policies, destroyed
C5_Witness ==
    \E o \in Objs :
        /\ Ended(o, "remove_aws_resource") /\ result[o].exc = "none"
        /\ result[o].before = NoTeardown
        /\ obj[o].pre_existing = PyBool(FALSE)
        /\ obj[o].add_instance_profile = PyBool(TRUE)
        /\ Len(obj[o].policies.q) = 2

(***************************************************************************)
(* C6.  As stated: at any moment a Role object's arn is non-empty if and   *)
(* only if the role of its name exists in the external system.             *)
(***************************************************************************)
\* o refers to a Role object: its constructor has returned
IsRole(o) == "arn" \in DOMAIN obj[o]

C6_Original ==
    \A o \in Objs :
        IsRole(o) => (Truthy(obj[o].arn) <=> obj[o].name \in DOMAIN iam.roles)

(***************************************************************************)
(* C6, amended.  A Role object's arn is non-empty from the return of its   *)
(* constructor on, and when the constructor returns the role exists        *)
(* externally with that arn; remove_aws_resource does not clear the arn,   *)
(* so after it has returned the arn is still non-empty while the role no   *)
(* longer exists.                                                          *)
(***************************************************************************)
C6_ArnSetOnce ==
    \A o \in Objs :
        IsRole(o) =>
            /\ obj[o].arn.t = "str" /\ obj[o].arn.s # ""
            /\ Ended(o, "__init__")
                 => /\ obj[o].name \in DOMAIN iam.roles
                    /\ obj[o].arn = PyStr(iam.roles[obj[o].name].Arn)
            /\ Ended(o, "remove_aws_resource") /\ result[o].exc = "none"
                 => obj[o].name \notin DOMAIN iam.roles

\* a created role has been destroyed through its object
C6_Witness ==
    \E o \in Objs :
        /\ IsRole(o) /\ obj[o].pre_existing = PyBool(FALSE)
        /\ Ended(o, "remove_aws_resource") /\ result[o].exc = "none"
        /\ Truthy(obj[o].arn)

(***************************************************************************)
(* C7.  A construction that creates the role with principal p and          *)
(* policies P yields the single-statement trust policy allowing            *)
(* sts:AssumeRole to p.amazonaws.com, attachedPolicies P, and leaves       *)
(* exactly P attached to the role in the external system.                  *)
(***************************************************************************)
TrustDocument(p) ==
    [Version |-> "2012-10-17",
     Statement |-> <<[Sid |-> "", Effect |-> "Allow",
                      Principal |-> [Service |-> p \o ".amazonaws.com"],
                      Action |-> "sts:AssumeRole"]>>]

Created(o) ==
    /\ Ended(o, "__init__") /\ result[o].exc = "none"
    /\ calls[o][1].exc = "NoSuchEntity"

C7_Created ==
    \A o \in Objs :
        Created(o) =>
            LET name == result[o].name
                P == Requested(result[o].policies)
            IN  /\ result[o].service \in AllowedPrincipals
                /\ obj[o].role_policy_document = PyDict(TrustDocument(result[o].service))
                /\ Len(obj[o].role_policy_document.d.Statement) = 1
                /\ {x.s : x \in Range(obj[o].policies.q)} = P
                /\ P \subseteq Available(o)
                /\ name \in DOMAIN iam.roles
                /\ iam.roles[name].AssumeRolePolicyDocument = TrustDocument(result[o].service)
                /\ iam.attached[name] = {PolicyArn(n) : n \in P}

\* the specification's scenario
C7_Witness ==
    \E o \in Objs :
        /\ Created(o)
        /\ result[o].service = "batch"
        /\ result[o].add_instance_profile = PyBool(FALSE)
        /\ Requested(result[o].policies) = {"AmazonS3ReadOnlyAccess"}
        /\ obj[o].role_policy_document.d.Statement[1].Principal.Service = "batch.amazonaws.com"

(***************************************************************************)
(* C8.  As stated: when an earlier remove_aws_resource on the object has   *)
(* aborted (and none has returned), a further invocation that meets no     *)
(* failure of the service and no policy missing from the account's list    *)
(* returns, and leaves the role, its attachments and its instance profile  *)
(* removed, whichever step the earlier one failed at.                      *)
(***************************************************************************)
C8_Original ==
    \A o \in Objs :
        /\ Ended(o, "remove_aws_resource")
        /\ result[o].before.aborted /\ ~result[o].before.returned
        /\ NoFault(calls[o]) /\ ~PolicyLookupFailed(o)
        => result[o].exc = "none" /\ TornDown(o)

(***************************************************************************)
(* C8, amended.  For a role the object created: when the earlier           *)
(* invocations of remove_aws_resource aborted before any of their mutating *)
(* calls had succeeded, a further invocation that meets no failure of the  *)
(* service and no policy missing from the account's list returns, and      *)
(* leaves the role, its attachments and its instance profile removed.      *)
(* (After an abort later than a successful unbind or detach the further    *)
(* invocation fails again, at the profile lookup or at the detach.)        *)
(***************************************************************************)
C8_RetryBeforeProgress ==
    \A o \in Objs :
        /\ Ended(o, "remove_aws_resource")
        /\ result[o].before.aborted /\ result[o].before.progress = 0
        /\ obj[o].pre_existing = PyBool(FALSE)
        /\ NoFault(calls[o]) /\ ~PolicyLookupFailed(o)
        => result[o].exc = "none" /\ TornDown(o)

\* a teardown that first aborted on its first call is completed by a retry
C8_Witness ==
    \E o \in Objs :
        /\ Ended(o, "remove_aws_resource") /\ result[o].exc = "none"
        /\ result[o].before.aborted /\ result[o].before.progress = 0
        /\ obj[o].pre_existing = PyBool(FALSE)
        /\ obj[o].add_instance_profile = PyBool(TRUE)
        /\ Len(obj[o].policies.q) = 2
        /\ TornDown(o)

(***************************************************************************)
(* C9.  The existence probe.  When get_role reports no such entity the     *)
(* snapshot has exists false and every other field None, and get_role is   *)
(* the only call made; the snapshot says exists exactly when the role      *)
(* exists; a failure of the service during the probe is never turned into  *)
(* a snapshot: it ends the construction with that failure.                 *)
(***************************************************************************)
ProbeOps == {"get_role", "list_attached_role_policies"}

C9_Probe ==
    \A o \in Objs :
        /\ pc[o] = "probed" =>
              LET snapshot == frame[o].role_exists
              IN  /\ NoFault(calls[o])
                  /\ \A i \in DOMAIN calls[o] : calls[o][i].op \in ProbeOps
                  /\ snapshot.exists <=> obj[o].name \in DOMAIN iam.roles
                  /\ calls[o][1].exc = "NoSuchEntity" =>
                        /\ snapshot = [exists |-> FALSE, description |-> PyNone,
                                       role_policy_document |-> PyNone, policies |-> PyNone,
                                       add_instance_profile |-> PyNone, arn |-> PyNone]
                        /\ OpsOf(calls[o]) = <<"get_role">>
        /\ /\ Ended(o, "__init__")
           /\ \E i \in DOMAIN calls[o] :
                 calls[o][i].op \in ProbeOps /\ calls[o][i].exc = "ServiceError"
           => /\ result[o].exc = "ServiceError"
              /\ obj[o] = NoObj
              /\ calls[o][Len(calls[o])].exc = "ServiceError"
              /\ \A i \in DOMAIN calls[o] : calls[o][i].op \in ProbeOps

\* the probe has found no role of the name
C9_Witness ==
    \E o \in Objs :
        /\ pc[o] = "probed"
        /\ ~frame[o].role_exists.exists
        /\ obj[o].name \notin DOMAIN iam.roles

(***************************************************************************)
(* C10.  Policy resolution under repeats.  A collection resolves as the    *)
(* collection without its repeats does, a lone string as the collection    *)
(* holding it; and a created role gets one attach_role_policy call per     *)
(* distinct requested name.                                                *)
(***************************************************************************)
RECURSIVE Dedup(_)
Dedup(q) ==
    IF q = <<>> THEN <<>>
    ELSE LET front == Dedup(SubSeq(q, 1, Len(q) - 1))
             x == q[Len(q)]
         IN  IF x \in Range(front) THEN front ELSE Append(front, x)

Deduplicated(policies) ==
    IF policies.t = "str" THEN PyTuple(<<policies>>) ELSE PyTuple(Dedup(policies.q))

AttachCalls(log) == SelectSeq(log, LAMBDA c : c.op = "attach_role_policy")

C10_Repeats ==
    \A o \in Objs :
        Resolved(o) /\ WellFormed(result[o].policies) =>
            LET P == result[o].policies
                D == Deduplicated(P)
                attaches == AttachCalls(calls[o])
            IN  /\ PoliciesTuple(P) = PoliciesTuple(D)
                /\ PoliciesAccepted(InputPolicies(P), Available(o))
                     <=> PoliciesAccepted(InputPolicies(D), Available(o))
                /\ result[o].exc = "none" =>
                     /\ Len(obj[o].policies.q) = Len(D.q)
                     /\ Range(obj[o].policies.q) = Range(D.q)
                     /\ Len(attaches) = Len(D.q)
                     /\ {attaches[i].args[2] : i \in DOMAIN attaches}
                          = {PolicyArn(x.s) : x \in Range(D.q)}

\* the specification's example: ("A", "A", "B") gets the two attachments of
\* ("A", "B")
C10_Witness ==
    \E o \in Objs :
        /\ Created(o)
        /\ result[o].policies =
              PyTuple(<<PyStr("AmazonS3ReadOnlyAccess"), PyStr("AmazonS3ReadOnlyAccess"),
                        PyStr("AmazonS3FullAccess")>>)
        /\ Len(AttachCalls(calls[o])) = 2
        /\ Len(obj[o].policies.q) = 2

(***************************************************************************)
(* C11.  The order of the calls of a construction that creates the role:   *)
(* the account's policies are fetched and the requested ones checked       *)
(* against them before create_role; create_role comes before every         *)
(* attach_role_policy, every attach_role_policy before                     *)
(* create_instance_profile, and add_role_to_instance_profile right after   *)
(* it; the two profile calls are made only when add_instance_profile is    *)
(* True, with the profile name <role name>-instance-profile, and a         *)
(* construction that returns has made both exactly when the flag is True.  *)
(***************************************************************************)
\* the places of the log where op was called
Places(log, op) == {i \in DOMAIN log : log[i].op = op}

\* the construction of o, running or ended, found no role of the name
CreatePath(o) ==
    /\ result[o].op = "__init__"
    /\ calls[o] # <<>>
    /\ calls[o][1].op = "get_role" /\ calls[o][1].exc = "NoSuchEntity"

C11_CreateOrder ==
    \A o \in Objs :
        CreatePath(o) =>
            LET log == calls[o]
                name == result[o].name
                profile == name \o "-instance-profile"
                creates == Places(log, "create_role")
                attaches == Places(log, "attach_role_policy")
                makes == Places(log, "create_instance_profile")
                binds == Places(log, "add_role_to_instance_profile")
                wanted == result[o].add_instance_profile = PyBool(TRUE)
            IN  /\ creates \subseteq {3}
                /\ creates # {} =>
                     /\ log[2].op = "list_policies" /\ log[2].exc = "none"
                     /\ WellFormed(result[o].policies)
                     /\ Requested(result[o].policies) \subseteq log[2].args[1]
                /\ attaches \cup makes \cup binds # {} =>
                     creates # {} /\ log[3].exc = "none"
                /\ \A j \in attaches : \A k \in makes \cup binds : j < k
                /\ \A k \in makes : \A b \in binds : b = k + 1 /\ log[k].exc = "none"
                /\ binds # {} => makes # {}
                /\ Cardinality(makes) <= 1 /\ Cardinality(binds) <= 1
                /\ makes # {} => wanted
                /\ \A k \in makes : log[k].args = <<profile>>
                /\ \A b \in binds : log[b].args = <<profile, name>>
                /\ Ended(o, "__init__") /\ result[o].exc = "none" =>
                     (wanted <=> makes # {} /\ binds # {})

\* a role created with two policies and an instance profile
C11_Witness ==
    \E o \in Objs :
        /\ Created(o)
        /\ OpsOf(calls[o]) =
              <<"get_role", "list_policies", "create_role", "list_policies",
                "attach_role_policy", "attach_role_policy",
                "create_instance_profile", "add_role_to_instance_profile">>
        /\ calls[o][7].args = <<result[o].name \o "-instance-profile">>

(***************************************************************************)
(* C12.  A construction that finds no role and is given a malformed        *)
(* policies argument or a name the account does not list fails with        *)
(* InvalidPolicySet, and one given a flag that is not a boolean fails with *)
(* InvalidInstanceProfileFlag.  Either failure comes after get_role and    *)
(* the fetch of the account's policies and nothing else: no mutating call  *)
(* was made, and the roles, attachments and profiles of the account are    *)
(* those it had when the constructor was invoked.                          *)
(***************************************************************************)
C12_RejectedUntouched ==
    \A o \in Objs :
        /\ Ended(o, "__init__")
             /\ result[o].exc \in {"InvalidPolicySet", "InvalidInstanceProfileFlag"}
           => /\ OpsOf(calls[o]) = <<"get_role", "list_policies">>
              /\ calls[o][1].exc = "NoSuchEntity" /\ calls[o][2].exc = "none"
              /\ MutatingCalls(calls[o]) = {}
              /\ Account(iam) = result[o].account
              /\ obj[o] = NoObj
        /\ Resolved(o) =>
              LET P == result[o].policies
                  known == WellFormed(P) /\ Requested(P) \subseteq Available(o)
              IN  /\ ~known => result[o].exc = "InvalidPolicySet"
                  /\ result[o].exc = "InvalidInstanceProfileFlag"
                       => result[o].add_instance_profile.t # "bool"
                  /\ known /\ Requested(P) # Available(o)
                       /\ result[o].add_instance_profile.t # "bool"
                       => result[o].exc = "InvalidInstanceProfileFlag"

\* a flag of 1 with two known policies
C12_Witness ==
    \E o \in Objs :
        /\ Ended(o, "__init__") /\ result[o].exc = "InvalidInstanceProfileFlag"
        /\ result[o].add_instance_profile = PyInt(1)
        /\ Cardinality(Requested(result[o].policies)) = 2
        /\ Account(iam) = result[o].account

(***************************************************************************)
(* C13.  A construction that fails after create_role has succeeded: the    *)
(* constructor raises and yields no object; the call that failed is its    *)
(* last (for a policy missing from the list fetched again by _create, the  *)
(* last call is the one before the lookup); it has made no detach, delete  *)
(* or unbind call; the role exists with exactly the attachments made       *)
(* before the failure.  No attach is passed over: a construction whose     *)
(* attachments are not the requested policies has raised.                  *)
(***************************************************************************)
CompensatingOps ==
    {"detach_role_policy", "delete_role", "delete_instance_profile",
     "remove_role_from_instance_profile"}

\* the construction of o has ended, its create_role having succeeded
RoleBuilt(o) == Ended(o, "__init__") /\ Built(calls[o]).failed

C13_FailedPartway ==
    \A o \in Objs :
        RoleBuilt(o) =>
            LET log == calls[o]
                name == result[o].name
                built == Built(log)
                last == log[Len(log)]
            IN  /\ built.attached # {PolicyArn(n) : n \in Requested(result[o].policies)}
                     => result[o].exc # "none"
                /\ result[o].exc # "none" =>
                     /\ obj[o] = NoObj
                     /\ log[1].exc = "NoSuchEntity"
                     /\ \A i \in 2 .. Len(log) - 1 : log[i].exc = "none"
                     /\ IF result[o].exc = "IndexError"
                        THEN /\ last.exc = "none"
                             /\ last.op \in {"list_policies", "attach_role_policy"}
                             /\ Requested(result[o].policies) \ log[4].args[1] # {}
                        ELSE last.exc = result[o].exc
                     /\ result[o].exc = "EntityAlreadyExists"
                          => last.op = "create_instance_profile"
                     /\ \A i \in DOMAIN log : log[i].op \notin CompensatingOps
                     /\ name \in DOMAIN iam.roles
                     /\ iam.attached[name] = built.attached
                     /\ built.profile
                          <=> (name \o "-instance-profile") \in DOMAIN iam.profiles
                                 \ DOMAIN result[o].account.profiles

\* the second of two validated policies has left the list by the time _create
\* fetches it: the first stays attached
C13_Witness ==
    \E o \in Objs :
        /\ RoleBuilt(o) /\ result[o].exc = "IndexError"
        /\ Cardinality(Built(calls[o]).attached) = 1
        /\ iam.attached[result[o].name] = Built(calls[o]).attached

(***************************************************************************)
(* C14.  A remove_aws_resource that fails stops there: the call that       *)
(* failed is its last and every call before it succeeded, so delete_role   *)
(* is not called after a failed profile step or detach; it calls nothing   *)
(* that would undo a step, and what its calls removed stays removed.       *)
(* With add_instance_profile True and no profile bound to the role it      *)
(* fails on the profile lookup, having made no mutating call; with a       *)
(* policy of the object missing from the account's list it fails before    *)
(* detaching that policy.                                                  *)
(***************************************************************************)
BuildingOps ==
    {"create_role", "attach_role_policy", "create_instance_profile",
     "add_role_to_instance_profile"}

\* the calls of the log that succeeded in op
Done(log, op) == {log[i] : i \in {j \in Places(log, op) : log[j].exc = "none"}}

Bound(name) == \E p \in DOMAIN iam.profiles : name \in iam.profiles[p]

C14_TeardownAborts ==
    \A o \in Objs :
        Ended(o, "remove_aws_resource") =>
            LET log == calls[o]
                name == obj[o].name
                last == log[Len(log)]
                detached == {c.args[2] : c \in Done(log, "detach_role_policy")}
                P == obj[o].policies.q
            IN  /\ result[o].exc # "none" =>
                     /\ \A i \in 1 .. Len(log) - 1 : log[i].exc = "none"
                     /\ IF result[o].exc = "IndexError"
                        THEN last.exc = "none" /\ last.op # "delete_role"
                        ELSE last.exc = result[o].exc
                     /\ Done(log, "delete_role") = {}
                     /\ Places(log, "delete_role") \subseteq {Len(log)}
                     /\ \A i \in DOMAIN log : log[i].op \notin BuildingOps
                     /\ name \in DOMAIN iam.attached => iam.attached[name] \cap detached = {}
                     /\ Done(log, "remove_role_from_instance_profile") # {} => ~Bound(name)
                     /\ \A c \in Done(log, "delete_instance_profile") :
                            c.args[1] \notin DOMAIN iam.profiles
                /\ /\ Truthy(obj[o].add_instance_profile)
                   /\ log[1].exc = "none"
                   /\ ~Bound(name) /\ Done(log, "remove_role_from_instance_profile") = {}
                   => /\ result[o].exc = "IndexError"
                      /\ OpsOf(log) = <<"list_instance_profiles_for_role">>
                      /\ MutatingCalls(log) = {}
                /\ result[o].exc = "IndexError" /\ last.op # "list_instance_profiles_for_role"
                   => LET k == Cardinality(Places(log, "detach_role_policy"))
                          fetched == log[CHOOSE i \in Places(log, "list_policies") : TRUE]
                      IN  /\ k < Len(P)
                          /\ P[k + 1].s \notin fetched.args[1]
                          /\ PolicyArn(P[k + 1].s) \notin detached
                          /\ \A i \in 1 .. k : PolicyArn(P[i].s) \in detached

\* the role's profile was unbound by an earlier invocation: the profile lookup
\* finds none
C14_Witness ==
    \E o \in Objs :
        /\ Ended(o, "remove_aws_resource") /\ result[o].exc = "IndexError"
        /\ Truthy(obj[o].add_instance_profile)
        /\ OpsOf(calls[o]) = <<"list_instance_profiles_for_role">>
        /\ obj[o].name \in DOMAIN iam.roles

(***************************************************************************)
(* C15.  An adopted role has add_instance_profile False, also when a       *)
(* profile is bound to the role.  Its remove_aws_resource never calls      *)
(* list_instance_profiles_for_role, remove_role_from_instance_profile or   *)
(* delete_instance_profile: it fetches the policies, detaches the adopted  *)
(* ones and calls delete_role.  So after 'create with a profile, adopt,    *)
(* remove through the adopting object' delete_role has been called with    *)
(* the profile <role name>-instance-profile still there and still bound    *)
(* (and the service refuses it).                                           *)
(***************************************************************************)
ProfileOps ==
    {"list_instance_profiles_for_role", "remove_role_from_instance_profile",
     "delete_instance_profile"}

Adopted(o) == IsRole(o) /\ obj[o].pre_existing = PyBool(TRUE)

C15_AdoptedSkipsProfile ==
    \A o \in Objs :
        Adopted(o) =>
            /\ obj[o].add_instance_profile = PyBool(FALSE)
            /\ result[o].op = "remove_aws_resource" =>
                 LET log == calls[o]
                     P == obj[o].policies.q
                 IN  /\ \A i \in DOMAIN log : log[i].op \notin ProfileOps
                     /\ \A i \in DOMAIN log :
                          log[i].op = IF i = 1 THEN "list_policies"
                                      ELSE IF i <= Len(P) + 1 THEN "detach_role_policy"
                                      ELSE "delete_role"
                     /\ Len(log) <= Len(P) + 2
                     /\ \A i \in Places(log, "delete_role") :
                          Bound(obj[o].name) => log[i].exc \in {"DeleteConflict", "ServiceError"}

\* the role was created with a profile, adopted by a second object and removed
\* through it: delete_role was called, the profile is still bound
C15_Witness ==
    \E o \in Objs :
        /\ Adopted(o) /\ Ended(o, "remove_aws_resource")
        /\ calls[o][Len(calls[o])].op = "delete_role"
        /\ calls[o][Len(calls[o])].exc = "DeleteConflict"
        /\ (obj[o].name \o "-instance-profile") \in DOMAIN iam.profiles
        /\ obj[o].name \in iam.profiles[obj[o].name \o "-instance-profile"]
        /\ obj[o].name \in DOMAIN iam.roles

(***************************************************************************)
(* C17.  With constructors and removals invoked one after the other, the   *)
(* create steps run only in a construction whose own probe found no role:  *)
(* when create_role is about to be called no role of the name exists, and  *)
(* create_role never fails with EntityAlreadyExists.                       *)
(***************************************************************************)
CreateSteps ==
    {"create_role", "list_policies_create", "attach_role_policy",
     "create_instance_profile", "add_role_to_instance_profile"}

C17_CreateOnlyWhenAbsent ==
    \A o \in Objs :
        /\ pc[o] \in CreateSteps =>
              /\ CreatePath(o)
              /\ ~frame[o].role_exists.exists
              /\ obj[o].pre_existing = PyBool(FALSE)
        /\ pc[o] = "create_role" => obj[o].name \notin DOMAIN iam.roles
        /\ \A i \in Places(calls[o], "create_role") :
              /\ CreatePath(o)
              /\ calls[o][i].exc \in {"none", "ServiceError"}
              /\ calls[o][i].args[1] \notin DOMAIN result[o].account.roles

\* a role is created in an account that an earlier, failed construction and a
\* removal have left a profile in
C17_Witness ==
    \E o \in Objs :
        /\ CreatePath(o)
        /\ Done(calls[o], "create_role") # {}
        /\ DOMAIN result[o].account.profiles # {}
        /\ result[o].account.roles = EmptyMap

(***************************************************************************)
(* C18.  The attributes of an IamRole (name, pre_existing, description,    *)
(* service, role_policy_document, policies, add_instance_profile, arn) are *)
(* each assigned once, by the constructor: no step changes an attribute    *)
(* that has a value, and once the constructor has returned no step of      *)
(* remove_aws_resource, whether it returns or raises, nor of               *)
(* instance_profile_arn changes the object at all.                         *)
(***************************************************************************)
\* the step taken is the caller's evaluating IamRole(...) anew
Rebinds(o) == pc[o] \in {"idle", "ready"} /\ pc'[o] = "get_role"

C18_ObjectFrozen ==
    [][\A o \in Objs :
          /\ \A f \in DOMAIN obj[o] \cap DOMAIN obj'[o] :
                Rebinds(o) \/ obj'[o][f] = obj[o][f]
          /\ IsRole(o) /\ ~Rebinds(o) => obj'[o] = obj[o]
          /\ IsRole(o) =>
                DOMAIN obj[o] = {"name", "pre_existing", "description", "service",
                                 "role_policy_document", "policies",
                                 "add_instance_profile", "arn"}]_vars

\* after a removal that failed having changed the account, the profile lookup
\* has answered, and the object is as it was constructed
C18_Witness ==
    \E o \in Objs :
        /\ IsRole(o)
        /\ result[o].op = "instance_profile_arn" /\ result[o].exc = "none"
        /\ teardown[o].aborted /\ teardown[o].progress > 0
        /\ obj[o].arn = PyStr(RoleArn(obj[o].name))
        /\ obj[o].pre_existing = PyBool(FALSE)

(***************************************************************************)
(* C19.  After a construction that failed with its create_role done, the   *)
(* next construction for the name, whatever its arguments, calls no        *)
(* create_role and nothing else that mutates, and unless the service       *)
(* itself fails it returns: it adopts the role, with pre_existing True,    *)
(* policies the ones attached before the failure, and                      *)
(* add_instance_profile False also when the failed construction had        *)
(* already made the instance profile.  A remove_aws_resource on that       *)
(* object then leaves that profile in the account.                         *)
(***************************************************************************)
\* the construction before the object's own failed after its create_role
AfterPartial(o) == teardown[o].partial.failed

C19_AdoptsPartial ==
    \A o \in Objs :
        AfterPartial(o) =>
            LET built == teardown[o].partial
                profile == obj[o].name \o "-instance-profile"
            IN  /\ result[o].op = "__init__" =>
                     /\ MutatingCalls(calls[o]) = {}
                     /\ \A i \in DOMAIN calls[o] : calls[o][i].op \in ProbeOps
                /\ Ended(o, "__init__") =>
                     /\ result[o].exc \in {"none", "ServiceError"}
                     /\ NoFault(calls[o]) => result[o].exc = "none"
                     /\ result[o].exc = "none" =>
                          /\ obj[o].pre_existing = PyBool(TRUE)
                          /\ {PolicyArn(x.s) : x \in Range(obj[o].policies.q)} = built.attached
                          /\ Len(obj[o].policies.q) = Cardinality(built.attached)
                          /\ obj[o].add_instance_profile = PyBool(FALSE)
                /\ IsRole(o) /\ built.profile =>
                     /\ profile \in DOMAIN iam.profiles
                     /\ result[o].op = "remove_aws_resource" =>
                          \A i \in DOMAIN calls[o] : calls[o][i].op \notin ProfileOps

\* a construction failed after an attach and after making the profile; the
\* role was adopted by the next one and removed: the profile is left
C19_Witness ==
    \E o \in Objs :
        /\ AfterPartial(o)
        /\ teardown[o].partial.profile /\ teardown[o].partial.attached # {}
        /\ Ended(o, "remove_aws_resource") /\ result[o].exc = "none"
        /\ obj[o].name \notin DOMAIN iam.roles
        /\ (obj[o].name \o "-instance-profile") \in DOMAIN iam.profiles

(***************************************************************************)
(* C16.  Two callers constructing for the same absent name, interleaved.   *)
(* Nothing holds a caller back between its probe and its create_role: a    *)
(* caller whose probe found no role goes on to create_role also when the   *)
(* other caller has created the role meanwhile.  Such a duplicate          *)
(* create_role is the only way create_role meets an existing role: it is   *)
(* refused with EntityAlreadyExists, and it was issued by a caller whose   *)
(* own probe had found nothing while the other caller's create_role        *)
(* succeeded.                                                              *)
(***************************************************************************)
C16_DuplicateCreate ==
    \A o \in Callers :
        /\ pc[o] \in CreateSteps => calls[o][1].exc = "NoSuchEntity"
        /\ \A i \in Places(calls[o], "create_role") :
              /\ calls[o][1].op = "get_role" /\ calls[o][1].exc = "NoSuchEntity"
              /\ calls[o][i].exc = "EntityAlreadyExists" =>
                    \E other \in Callers \ {o} :
                        \E c \in Done(calls[other], "create_role") :
                            c.args[1] = calls[o][i].args[1]
        /\ Done(calls[o], "create_role") # {} =>
              \A other \in Callers \ {o} : Done(calls[other], "create_role") = {}

\* both probes found nothing and both callers called create_role for the name:
\* the second call met the role the first had created
C16_Witness ==
    \E o \in Callers, other \in Callers :
        /\ o # other
        /\ calls[o] # <<>> /\ calls[other] # <<>>
        /\ calls[o][1].exc = "NoSuchEntity" /\ calls[other][1].exc = "NoSuchEntity"
        /\ Done(calls[o], "create_role") # {}
        /\ \E i \in Places(calls[other], "create_role") :
              /\ calls[other][i].exc = "EntityAlreadyExists"
              /\ calls[other][i].args[1] = result[o].name

====
